---- MODULE Spec2Model ----
(***************************************************************************)
(* battery-logger: the BatteryChart view window (zoom / pan / reset), the  *)
(* data refresh that feeds it, and the goroutines that drive both.         *)
(*                                                                         *)
(* Time.  A time.Time is an integer number of seconds since an arbitrary   *)
(* origin and a time.Duration an integer number of seconds (Go counts      *)
(* nanoseconds; the conversions float64 -> Duration truncate to a whole    *)
(* tick in both).  The zero time.Time{} is ZeroTime; every real timestamp  *)
(* is later than it.                                                       *)
(***************************************************************************)
EXTENDS Integers, Sequences, FiniteSets, TLC

VARIABLES
    now,            \* the wall clock read by time.Now()
    series,         \* BatteryChart.series
    baseWindow,     \* BatteryChart.baseWindow
    currentWindow,  \* BatteryChart.currentWindow
    windowStart,    \* BatteryChart.windowStart
    windowEnd,      \* BatteryChart.windowEnd
    dataStart,      \* BatteryChart.dataStart
    dataEnd,        \* BatteryChart.dataEnd
    onZoomChange,   \* BatteryChart.onZoomChange is set (non-nil)
    chartTitle,     \* span shown in the "chart-container" border title
    textWidget,     \* what was last written to the status text widget
    mainPc,         \* position of runTUI
    tickerPc,       \* position of the refresh goroutine of SetupDataRefresh
    tickerReadAt,   \* when the refresh goroutine read the rows it is about to set
    lastOp,         \* history: the operation that produced this state
    cbCalls,        \* history: onZoomChange invocations made by the last handler
    cbArgs,         \* history: arguments onZoomChange got from the last handler, <<>> if none
    nEvents,        \* history: number of input events handled so far
    samples,        \* the []Row handed to the analytics or drawing function under study
    params,         \* its other arguments
    called,         \* the function that has been applied to them, "none" before
    ret,            \* what it returned
    pidFile,        \* the file at PIDFile.Path
    daemon          \* position of each daemon process in runCmd

vars == <<now, series, baseWindow, currentWindow, windowStart, windowEnd,
          dataStart, dataEnd, onZoomChange,
          chartTitle, textWidget, mainPc, tickerPc, tickerReadAt,
          lastOp, cbCalls, cbArgs, nEvents,
          samples, params, called, ret, pidFile, daemon>>

\* the TUI: the chart, its refresh and its input events
tuiVars == <<now, series, baseWindow, currentWindow, windowStart, windowEnd,
             dataStart, dataEnd, onZoomChange,
             chartTitle, textWidget, mainPc, tickerPc, tickerReadAt,
             lastOp, cbCalls, cbArgs, nEvents>>

\* one call of an analytics or drawing function
callVars == <<samples, params, called, ret>>

\* the daemons and their pid file
lockVars == <<pidFile, daemon>>

chartVars == <<series, baseWindow, currentWindow, windowStart, windowEnd,
               dataStart, dataEnd, onZoomChange>>

-----------------------------------------------------------------------------
(* Bounds of the model *)

MaxEvents == 2      \* input events (keys, mouse, SetWindow) per behaviour
MaxTicks == 1       \* advances of the wall clock per behaviour
MaxRows == 2        \* rows in one read of the CSV log
MaxZooms == 30      \* consecutive zoom-ins of a zoom-in run

-----------------------------------------------------------------------------
(* Program constants *)

ZeroTime == 0                       \* time.Time{}
defaultWindow == 24 * 3600          \* CreateBatteryChart: 24 * time.Hour
minWindow == 5 * 60                 \* CreateBatteryChart: 5 * time.Minute
maxWindow == 7 * 24 * 3600          \* CreateBatteryChart: 7 * 24 * time.Hour
zoomStepNum == 1                    \* zoomStep = 0.1 = zoomStepNum / zoomStepDen
zoomStepDen == 10
panNum == 1                         \* pan distance factor 0.1 = panNum / panDen
panDen == 10

(* Environment: the clock starts at T0 and advances by ClockStep; the log  *)
(* holds samples on a grid of ClockStep seconds, none from the future; the *)
(* charger was plugged in at every other grid time.                        *)
T0 == 10 * 24 * 3600
ClockStep == 30 * 60
SampleGrid == {T0 - ClockStep, T0, T0 + ClockStep}
ACAt(t) == ((t - T0) \div ClockStep) % 2 = 0

(* Durations handed to Window(d) and SetWindow(d). *)
WindowOpts == {60, 5 * 3600, 8 * 24 * 3600}

(* Durations handed to Window(d) at the start of a zoom-in run. *)
ZoomStarts == {60 * 60, 100 * 60, 24 * 3600, 7 * 24 * 3600}

(* Mouse cursor columns. *)
Positions == {0, 1}

-----------------------------------------------------------------------------
(* Pure helpers *)

IsZero(t) == t = ZeroTime

\* time.Duration(float64(d) * (num/den)) for d >= 0: truncation to a whole tick
Scale(d, num, den) == (d * num) \div den

\* Duration.Round(time.Minute): nearest multiple of a minute, halves away from zero
RoundMinute(d) ==
    IF d >= 0 THEN ((d + 30) \div 60) * 60 ELSE 0 - (((0 - d) + 30) \div 60) * 60

\* The strictly increasing timestamp sequences of length n over the grid up to t
SortedTimes(n, t) ==
    {s \in [1..n -> {g \in SampleGrid : g <= t}] :
        \A i \in 1..(n - 1) : s[i] < s[i + 1]}

\* What readCSV can return at time t: chronologically sorted rows
CsvRows(t) ==
    UNION {{[i \in 1..n |-> [T |-> ts[i], AC |-> ACAt(ts[i]), Batt |-> 50]] :
               ts \in SortedTimes(n, t)} : n \in 1..MaxRows}

SelectPoints(rows, ac) ==
    LET F[i \in 0..Len(rows)] ==
            IF i = 0 THEN <<>>
            ELSE IF rows[i].AC = ac
                 THEN Append(F[i - 1], [Time |-> rows[i].T, Value |-> rows[i].Batt,
                                         State |-> rows[i].AC])
                 ELSE F[i - 1]
    IN F[Len(rows)]

\* ProcessChartData: the charging series first, then the discharging one,
\* each only when it has points
ProcessChartData(rows) ==
    LET chargingPoints == SelectPoints(rows, TRUE)
        dischargingPoints == SelectPoints(rows, FALSE)
    IN (IF Len(chargingPoints) > 0
        THEN <<[Name |-> "Charging", Points |-> chargingPoints]>> ELSE <<>>)
       \o
       (IF Len(dischargingPoints) > 0
        THEN <<[Name |-> "Discharging", Points |-> dischargingPoints]>> ELSE <<>>)

\* All points of all series, in iteration order
AllPoints(ss) ==
    LET F[i \in 0..Len(ss)] == IF i = 0 THEN <<>> ELSE F[i - 1] \o ss[i].Points
    IN F[Len(ss)]

\* updateDataBounds: <<earliest, latest>> over all points of all series;
\* the bounds are left as they are when there is no series
updateDataBounds_firstSeriesOnly(ss, ds, de) ==
    IF Len(ss) = 0 THEN <<ds, de>>
    ELSE LET pts == ss[1].Points
             F[i \in 0..Len(pts)] ==
                 IF i = 0 THEN <<ZeroTime, ZeroTime>>
                 ELSE IF i = 1 THEN <<pts[1].Time, pts[1].Time>>
                 ELSE <<IF pts[i].Time < F[i - 1][1] THEN pts[i].Time ELSE F[i - 1][1],
                        IF pts[i].Time > F[i - 1][2] THEN pts[i].Time ELSE F[i - 1][2]>>
         IN F[Len(pts)]

updateDataBounds(ss, ds, de) ==
    IF Len(ss) = 0 THEN <<ds, de>>
    ELSE LET pts == AllPoints(ss)
             F[i \in 0..Len(pts)] ==
                 IF i = 0 THEN <<ZeroTime, ZeroTime>>
                 ELSE IF i = 1 THEN <<pts[1].Time, pts[1].Time>>
                 ELSE <<IF pts[i].Time < F[i - 1][1] THEN pts[i].Time ELSE F[i - 1][1],
                        IF pts[i].Time > F[i - 1][2] THEN pts[i].Time ELSE F[i - 1][2]>>
         IN F[Len(pts)]


-----------------------------------------------------------------------------
(* The view window operations of BatteryChart, as functions of its fields *)

\* zoom: the new currentWindow
zoomWindow_noClamp(cw, zoomIn) ==
    IF zoomIn THEN Scale(cw, zoomStepDen - zoomStepNum, zoomStepDen)
    ELSE Scale(cw, zoomStepDen + zoomStepNum, zoomStepDen)

zoomWindow(cw, zoomIn) ==
    IF zoomIn
    THEN LET newWindow == Scale(cw, zoomStepDen - zoomStepNum, zoomStepDen)
         IN IF newWindow < minWindow THEN minWindow ELSE newWindow
    ELSE LET newWindow == Scale(cw, zoomStepDen + zoomStepNum, zoomStepDen)
         IN IF newWindow > maxWindow THEN maxWindow ELSE newWindow

\* pan: <<newStart, newEnd>> once the data bounds are known
panWindow(ws, we, cw, ds, de, right) ==
    LET panDistance == Scale(cw, panNum, panDen)
        s0 == IF right THEN ws + panDistance ELSE ws - panDistance
        e0 == IF right THEN we + panDistance ELSE we - panDistance
        s1 == IF s0 < ds THEN ds ELSE s0
        e1 == IF s0 < ds THEN ds + cw ELSE e0
    IN IF e1 > de
       THEN <<IF de - cw < ds THEN ds ELSE de - cw, de>>
       ELSE <<s1, e1>>

\* The Esc branch of Keyboard: <<currentWindow, windowStart, windowEnd>>
resetWindow_keepsEnd(base, we, t) == <<base, we - base, we>>

resetWindow(base, we, t) == <<base, t - base, t>>

\* triggerZoomChange with the callback registered by runTUI
\* (UpdateChartTitleFromZoom); s, e, d are the fields after the update
triggerZoomChange_stale(s, e, d) ==
    IF onZoomChange
    THEN /\ cbCalls' = 1
         /\ cbArgs' = <<windowStart, windowEnd, currentWindow>>
         /\ chartTitle' = RoundMinute(windowEnd - windowStart)
    ELSE /\ cbCalls' = 0
         /\ cbArgs' = <<>>
         /\ UNCHANGED chartTitle

triggerZoomChange(s, e, d) ==
    IF onZoomChange
    THEN /\ cbCalls' = 1
         /\ cbArgs' = <<s, e, d>>
         /\ chartTitle' = RoundMinute(e - s)
    ELSE /\ cbCalls' = 0
         /\ cbArgs' = <<>>
         /\ UNCHANGED chartTitle

-----------------------------------------------------------------------------
(* Construction and the start-up sequence of runTUI *)

NumDaemons == 3     \* daemon processes started

Procs == 1..NumDaemons                  \* their process ids
StalePid == 99                          \* the process id of a daemon that died
Absent == [exists |-> FALSE, pid |-> 0, owner |-> 0]

\* no daemon started, no pid file
NoDaemon ==
    /\ pidFile = Absent
    /\ daemon = [p \in Procs |-> "start"]

\* CreateBatteryChart(opts...): the window times are set from the default
\* base window before the options run; Window(d) sets only the two durations
\* (no Window option leaves both at the default, as Window(defaultWindow))
\* no analytics or drawing call is under study
NoCall ==
    /\ samples = <<>>
    /\ params = <<>>
    /\ called = "none"
    /\ ret = <<>>

Init ==
    /\ now = T0
    /\ \E d \in WindowOpts \cup {defaultWindow} :
          /\ baseWindow = d
          /\ currentWindow = d
    /\ windowEnd = now
    /\ windowStart = now - defaultWindow
    /\ series = <<>>
    /\ dataStart = ZeroTime
    /\ dataEnd = ZeroTime
    /\ onZoomChange = FALSE
    /\ chartTitle = -1
    /\ textWidget = "empty"
    /\ mainPc = "created"
    /\ tickerPc = "off"
    /\ tickerReadAt = ZeroTime
    /\ lastOp = "create"
    /\ cbCalls = 0
    /\ cbArgs = <<>>
    /\ nEvents = 0
    /\ NoCall
    /\ NoDaemon

SetOnZoomChange ==
    /\ mainPc = "created"
    /\ onZoomChange' = TRUE
    /\ mainPc' = "cbset"
    /\ lastOp' = "SetOnZoomChange"
    /\ cbCalls' = 0
    /\ UNCHANGED <<now, series, baseWindow, currentWindow, windowStart, windowEnd,
                   dataStart, dataEnd,
                   chartTitle, textWidget, tickerPc, tickerReadAt,
                   nEvents>>
    /\ cbArgs' = <<>>
    /\ UNCHANGED <<callVars, lockVars>>

\* SetupDataRefresh: builds updateData and starts the refresh goroutine
SetupDataRefresh ==
    /\ mainPc = "cbset"
    /\ mainPc' = "load"
    /\ tickerPc' = "wait"
    /\ lastOp' = "SetupDataRefresh"
    /\ cbCalls' = 0
    /\ UNCHANGED <<chartVars, now, chartTitle, textWidget, tickerReadAt,
                   nEvents>>
    /\ cbArgs' = <<>>
    /\ UNCHANGED <<callVars, lockVars>>

-----------------------------------------------------------------------------
(* updateData *)

\* What readCSVFunc(logPath) can return at time t: an error, no rows at all,
\* or the rows of the log
readCSV(t) ==
    {[err |-> TRUE, rows |-> <<>>], [err |-> FALSE, rows |-> <<>>]}
        \cup {[err |-> FALSE, rows |-> r] : r \in CsvRows(t)}

ReadFailed_errOnly(r) == r.err

\* updateData: err != nil || len(rows) == 0
ReadFailed(r) == r.err \/ Len(r.rows) = 0

\* the read failed or returned no rows: only the placeholder is written
WritePlaceholder ==
    textWidget' = "placeholder"

\* updateData run to completion on the calling goroutine: ClearSeries,
\* SetSeries, the title from GetCurrentWindow, the status text
UpdateDataBy ==
    /\ \E r \in readCSV(now) :
          IF ReadFailed(r)
          THEN /\ WritePlaceholder
               /\ lastOp' = "refreshFail"
               /\ UNCHANGED <<series, dataStart, dataEnd, chartTitle>>
          ELSE LET ss == ProcessChartData(r.rows)
                   b == updateDataBounds(ss, ZeroTime, ZeroTime)
               IN /\ series' = ss
                  /\ dataStart' = b[1]
                  /\ dataEnd' = b[2]
                  /\ chartTitle' = RoundMinute(windowEnd - windowStart)
                  /\ textWidget' = "status"
                  /\ lastOp' = "refresh"
    /\ cbCalls' = 0
    /\ UNCHANGED <<now, baseWindow, currentWindow, windowStart, windowEnd,
                   onZoomChange,
                   tickerPc, tickerReadAt, nEvents>>
    /\ cbArgs' = <<>>
    /\ UNCHANGED <<callVars, lockVars>>

\* runTUI: the initial data load, then termdash.Run
InitialLoad ==
    /\ mainPc = "load"
    /\ mainPc' = "run"
    /\ UpdateDataBy

\* CreateKeyboardHandler: 'r' runs updateData from the keyboard subscriber
ManualRefresh ==
    /\ mainPc = "run"
    /\ UNCHANGED mainPc
    /\ UpdateDataBy

\* The refresh goroutine, on a tick: updateData up to and including
\* ClearSeries (or the placeholder when the read fails)
TickerFire ==
    /\ tickerPc = "wait"
    /\ \E r \in readCSV(now) :
          IF ReadFailed(r)
          THEN /\ WritePlaceholder
               /\ lastOp' = "refreshFail"
               /\ UNCHANGED <<series, dataStart, dataEnd, tickerPc, tickerReadAt>>
          ELSE /\ tickerReadAt' = now
               /\ series' = <<>>
               /\ dataStart' = ZeroTime
               /\ dataEnd' = ZeroTime
               /\ tickerPc' = "cleared"
               /\ lastOp' = "tickerClear"
               /\ UNCHANGED textWidget
    /\ cbCalls' = 0
    /\ UNCHANGED <<now, baseWindow, currentWindow, windowStart, windowEnd,
                   onZoomChange, chartTitle,
                   mainPc, nEvents>>
    /\ cbArgs' = <<>>
    /\ UNCHANGED <<callVars, lockVars>>

\* The refresh goroutine: the rest of updateData, from SetSeries on.  The rows
\* were read at tickerReadAt, before ClearSeries; nothing observes them until
\* SetSeries, so the value read is drawn here, from what the log held then.
TickerSet ==
    /\ tickerPc = "cleared"
    /\ \E r \in {q \in readCSV(tickerReadAt) : ~ReadFailed(q)} :
          LET chartSeries == ProcessChartData(r.rows)
              b == updateDataBounds(chartSeries, dataStart, dataEnd)
          IN /\ series' = chartSeries
             /\ dataStart' = b[1]
             /\ dataEnd' = b[2]
    /\ chartTitle' = RoundMinute(windowEnd - windowStart)
    /\ textWidget' = "status"
    /\ tickerPc' = "wait"
    /\ tickerReadAt' = ZeroTime
    /\ lastOp' = "refresh"
    /\ cbCalls' = 0
    /\ UNCHANGED <<now, baseWindow, currentWindow, windowStart, windowEnd,
                   onZoomChange,
                   mainPc, nEvents>>
    /\ cbArgs' = <<>>
    /\ UNCHANGED <<callVars, lockVars>>

-----------------------------------------------------------------------------
(* Input events, delivered to the widget while termdash.Run runs *)

EventUpTo(op, limit) ==
    /\ mainPc = "run"
    /\ nEvents < limit
    /\ nEvents' = nEvents + 1
    /\ lastOp' = op
    /\ UNCHANGED <<now, mainPc, tickerPc, tickerReadAt, textWidget, onZoomChange,
                   series, dataStart, dataEnd, baseWindow>>
    /\ UNCHANGED <<callVars, lockVars>>

Event(op) == EventUpTo(op, MaxEvents)

\* zoom(zoomIn, position): the end is kept, the start recomputed
zoom(zoomIn, position) ==
    LET cw == zoomWindow(currentWindow, zoomIn)
    IN /\ currentWindow' = cw
       /\ windowStart' = windowEnd - cw
       /\ UNCHANGED windowEnd
       /\ triggerZoomChange(windowEnd - cw, windowEnd, cw)

\* pan without the test of the data bounds
pan_ignoresBounds(right) ==
    LET w == panWindow(windowStart, windowEnd, currentWindow,
                       dataStart, dataEnd, right)
    IN /\ windowStart' = w[1]
       /\ windowEnd' = w[2]
       /\ UNCHANGED currentWindow
       /\ triggerZoomChange(w[1], w[2], currentWindow)

\* pan(right)
pan(right) ==
    IF IsZero(dataStart) \/ IsZero(dataEnd)
    THEN /\ cbCalls' = 0
         /\ cbArgs' = <<>>
         /\ UNCHANGED <<windowStart, windowEnd, currentWindow, chartTitle>>
    ELSE LET w == panWindow(windowStart, windowEnd, currentWindow,
                            dataStart, dataEnd, right)
         IN /\ windowStart' = w[1]
            /\ windowEnd' = w[2]
            /\ UNCHANGED currentWindow
            /\ triggerZoomChange(w[1], w[2], currentWindow)

\* Keyboard: arrow keys
KeyArrow ==
    \E right \in BOOLEAN :
        /\ Event(IF right THEN "panRight" ELSE "panLeft")
        /\ pan(right)

\* Keyboard: 'i', 'I', 'o', 'O'
KeyZoom ==
    \E zoomIn \in BOOLEAN :
        /\ Event(IF zoomIn THEN "zoomIn" ELSE "zoomOut")
        /\ zoom(zoomIn, 0)

\* Keyboard: Esc resets to the base window, ending now
KeyEsc ==
    /\ Event("reset")
    /\ LET r == resetWindow(baseWindow, windowEnd, now)
       IN /\ currentWindow' = r[1]
          /\ windowStart' = r[2]
          /\ windowEnd' = r[3]
          /\ triggerZoomChange(r[2], r[3], r[1])

\* Mouse: wheel up / wheel down at a cursor position
MouseWheel ==
    \E zoomIn \in BOOLEAN, position \in Positions :
        /\ Event(IF zoomIn THEN "zoomIn" ELSE "zoomOut")
        /\ zoom(zoomIn, position)

\* SetWindow(window)
SetWindow ==
    \E window \in WindowOpts :
        /\ Event("SetWindow")
        /\ baseWindow' = window
        /\ currentWindow' = window
        /\ windowEnd' = now
        /\ windowStart' = now - window
        /\ cbCalls' = 0
        /\ cbArgs' = <<>>
        /\ UNCHANGED chartTitle

\* Time passes
AdvanceClock ==
    /\ now < T0 + MaxTicks * ClockStep
    /\ now' = now + ClockStep
    /\ lastOp' = "clock"
    /\ cbCalls' = 0
    /\ UNCHANGED <<chartVars, chartTitle, textWidget, mainPc, tickerPc, tickerReadAt,
                   nEvents>>
    /\ cbArgs' = <<>>
    /\ UNCHANGED <<callVars, lockVars>>

Next ==
    \/ SetOnZoomChange
    \/ SetupDataRefresh
    \/ InitialLoad
    \/ ManualRefresh
    \/ TickerFire
    \/ TickerSet
    \/ KeyArrow
    \/ KeyZoom
    \/ KeyEsc
    \/ MouseWheel
    \/ SetWindow
    \/ AdvanceClock

Spec == Init /\ [][Next]_vars


-----------------------------------------------------------------------------
(* Zoom-in runs: a chart built with Window(d) and driven by nothing but    *)
(* zoom-in events (key 'i' or wheel up); nEvents counts the zoom-ins.      *)

InitZoomIn ==
    /\ now = T0
    /\ \E d \in ZoomStarts :
          /\ baseWindow = d
          /\ currentWindow = d
    /\ windowEnd = now
    /\ windowStart = now - defaultWindow
    /\ series = <<>>
    /\ dataStart = ZeroTime
    /\ dataEnd = ZeroTime
    /\ onZoomChange = TRUE
    /\ chartTitle = -1
    /\ textWidget = "placeholder"
    /\ mainPc = "run"
    /\ tickerPc = "wait"
    /\ tickerReadAt = ZeroTime
    /\ lastOp = "refreshFail"
    /\ cbCalls = 0
    /\ cbArgs = <<>>
    /\ nEvents = 0
    /\ NoCall
    /\ NoDaemon

KeyZoomIn ==
    /\ EventUpTo("zoomIn", MaxZooms)
    /\ zoom(TRUE, 0)

MouseWheelUp ==
    \E position \in Positions :
        /\ EventUpTo("zoomIn", MaxZooms)
        /\ zoom(TRUE, position)

NextZoomIn ==
    \/ KeyZoomIn
    \/ MouseWheelUp

SpecZoomIn == InitZoomIn /\ [][NextZoomIn]_vars


-----------------------------------------------------------------------------
(* Vocabulary of the properties *)

BoundsKnown == ~IsZero(dataStart) /\ ~IsZero(dataEnd)
PanOps == {"panLeft", "panRight"}
ZoomOps == {"zoomIn", "zoomOut"}
WindowChangers == ZoomOps \cup PanOps \cup {"reset", "SetWindow"}
window == <<windowStart, windowEnd, currentWindow>>
SampleTimes(ss) == {ss[i].Points[j].Time : <<i, j>> \in
                       {q \in (DOMAIN ss) \X (1..MaxRows + 1) : q[2] <= Len(ss[q[1]].Points)}}
MinTime(ss) == CHOOSE t \in SampleTimes(ss) : \A u \in SampleTimes(ss) : t <= u
MaxTime(ss) == CHOOSE t \in SampleTimes(ss) : \A u \in SampleTimes(ss) : t >= u
Clamp(d, lo, hi) == IF d < lo THEN lo ELSE IF d > hi THEN hi ELSE d

-----------------------------------------------------------------------------
(* C1: after every pan made while the data bounds are known, with          *)
(* dataStart < dataEnd, the window lies inside the data range              *)
(* (windowStart >= dataStart and windowEnd <= dataEnd), and when           *)
(* currentWindow is longer than the data range the start is pinned to      *)
(* dataStart.                                                              *)
C1_PanRestoresBounds ==
    (lastOp \in PanOps /\ BoundsKnown /\ dataStart < dataEnd) =>
        /\ windowStart >= dataStart
        /\ windowEnd <= dataEnd
        /\ (currentWindow > dataEnd - dataStart => windowStart = dataStart)

(* C2: in every reachable state minWindow <= currentWindow <= maxWindow.   *)
C2_WindowWithinLimits ==
    minWindow <= currentWindow /\ currentWindow <= maxWindow

(* C3: in every reachable state the duration held by the chart (and so     *)
(* the one returned by GetCurrentWindow), and the duration last handed to  *)
(* the change callback, equal windowEnd - windowStart.                     *)
C3_DurationIsEndMinusStart ==
    /\ currentWindow = windowEnd - windowStart
    /\ (cbArgs # <<>> => cbArgs[3] = cbArgs[2] - cbArgs[1])

(* C4: a zoom-in or zoom-out (key or wheel, at any cursor position, with   *)
(* any data bounds) sets currentWindow to currentWindow x (1 -/+ zoomStep) *)
(* clamped to [minWindow, maxWindow], sets windowStart to                  *)
(* windowEnd - currentWindow, and leaves windowEnd, dataStart, dataEnd and *)
(* baseWindow unchanged.                                                   *)
C4_ZoomClampsAndAnchors ==
    [][lastOp' \in ZoomOps /\ nEvents' = nEvents + 1 =>
          /\ currentWindow' =
                Clamp(IF lastOp' = "zoomIn"
                      THEN Scale(currentWindow, zoomStepDen - zoomStepNum, zoomStepDen)
                      ELSE Scale(currentWindow, zoomStepDen + zoomStepNum, zoomStepDen),
                      minWindow, maxWindow)
          /\ windowStart' = windowEnd' - currentWindow'
          /\ UNCHANGED <<windowEnd, dataStart, dataEnd, baseWindow>>]_vars

(* C5: after a reset (Esc), whatever the window and the data bounds were,  *)
(* currentWindow = baseWindow, windowEnd = now and                         *)
(* windowStart = windowEnd - baseWindow.                                   *)
C5_ResetRestoresBase ==
    lastOp = "reset" =>
        /\ currentWindow = baseWindow
        /\ windowEnd = now
        /\ windowStart = windowEnd - baseWindow

C5_Witness ==
    /\ lastOp = "reset"
    /\ nEvents >= 2
    /\ now > T0
    /\ BoundsKnown
    /\ cbArgs = window

(* C6 (its safety part): after a pan right with known data bounds          *)
(* windowEnd never exceeds dataEnd, and once such a pan has left           *)
(* windowEnd = dataEnd a further pan right changes nothing.                *)
C6_PanRightPinsAtDataEnd ==
    (lastOp = "panRight" /\ BoundsKnown) =>
        /\ windowEnd <= dataEnd
        /\ (windowEnd = dataEnd =>
               panWindow(windowStart, windowEnd, currentWindow,
                         dataStart, dataEnd, TRUE) = <<windowStart, windowEnd>>)

(* C7, as claimed: ten consecutive zoom-ins from a 100-minute window leave *)
(* currentWindow at exactly 5 minutes, and never below 5 minutes.          *)
C7_TenZoomInsReachMin ==
    baseWindow = 100 * 60 =>
        /\ currentWindow >= minWindow
        /\ (nEvents = 10 => currentWindow = 5 * 60)

(* C7, amended: from a 100-minute window currentWindow is never below      *)
(* 5 minutes; after ten consecutive zoom-ins it is 100 min x 0.9^10, which *)
(* lies between 34 and 35 minutes; it is 5 minutes from the 29th zoom-in   *)
(* on and longer than 5 minutes before that.                               *)
C7_ZoomInConvergence ==
    baseWindow = 100 * 60 =>
        /\ currentWindow >= minWindow
        /\ (nEvents = 10 => 34 * 60 < currentWindow /\ currentWindow < 35 * 60)
        /\ (nEvents >= 29 => currentWindow = 5 * 60)
        /\ (nEvents < 29 => currentWindow > 5 * 60)

C7_Witness ==
    /\ baseWindow = 100 * 60
    /\ lastOp = "zoomIn"
    /\ nEvents = 29
    /\ currentWindow = minWindow

(* C8: a data refresh (ClearSeries, then SetSeries) sets dataStart and     *)
(* dataEnd to the earliest and latest timestamp over all points of all     *)
(* series and leaves windowStart, windowEnd and currentWindow as they      *)
(* were; no step of a refresh moves the window, which only zoom, pan,      *)
(* reset and SetWindow change.                                             *)
C8_RefreshKeepsWindow ==
    [][/\ (lastOp' = "refresh" =>
              /\ dataStart' = MinTime(series')
              /\ dataEnd' = MaxTime(series')
              /\ window' = window)
       /\ (lastOp' \in {"refreshFail", "tickerClear"} => window' = window)
       /\ (window' # window => lastOp' \in WindowChangers)]_vars

C8_Witness ==
    /\ lastOp = "refresh"
    /\ tickerPc = "wait"
    /\ Len(series) = 2
    /\ dataStart < dataEnd
    /\ nEvents >= 1
    /\ windowEnd > dataEnd
    /\ currentWindow # windowEnd - windowStart

(* C9: every zoom-in, zoom-out and reset, and every pan made while the     *)
(* data bounds are known, invokes the registered change callback exactly   *)
(* once, with the chart's new windowStart, windowEnd and currentWindow; no *)
(* handler invokes it with other values.                                   *)
C9_CallbackOncePerEvent ==
    /\ (lastOp \in ZoomOps \cup {"reset"} \/ (lastOp \in PanOps /\ BoundsKnown)) =>
           cbCalls = 1 /\ cbArgs = window
    /\ (cbCalls >= 1 => cbArgs = window)

C9_Witness ==
    /\ lastOp \in PanOps
    /\ BoundsKnown
    /\ cbCalls = 1
    /\ windowStart = dataStart
    /\ windowEnd = dataEnd
    /\ currentWindow > dataEnd - dataStart

(* C10: the refresh timer's goroutine only requests a refresh: it is never *)
(* itself in the middle of a refresh, having cleared the chart's series    *)
(* and data bounds and about to set them, while the event loop is free to  *)
(* run its handlers.                                                       *)
C10_TimerOnlyRequests ==
    tickerPc # "cleared" /\ lastOp # "tickerClear"

-----------------------------------------------------------------------------
(* C11: a refresh whose CSV read fails or returns no rows writes the       *)
(* placeholder and leaves the series, the data bounds and the view window  *)
(* as they were; the status is generated only from a non-empty sample set. *)
C11_FailedReadChangesNothing ==
    [][/\ (lastOp' = "refreshFail" =>
              /\ textWidget' = "placeholder"
              /\ UNCHANGED <<series, dataStart, dataEnd, baseWindow,
                             currentWindow, windowStart, windowEnd>>)
       /\ (lastOp' = "refresh" => textWidget' = "status" /\ series' # <<>>)]_vars

C11_Witness ==
    /\ lastOp = "refreshFail"
    /\ textWidget = "placeholder"
    /\ series # <<>>
    /\ BoundsKnown
    /\ nEvents >= 1

-----------------------------------------------------------------------------
(* Analytics: exact arithmetic                                             *)
(*                                                                         *)
(* A float64 is modelled by the rational it stands for, a pair <<n, d>> in *)
(* lowest terms with d > 0; +Inf is the string "Inf".  The samples of the  *)
(* analytics runs are stamped on whole minutes, so Duration.Minutes() is   *)
(* an integer.                                                             *)

Abs(n) == IF n < 0 THEN 0 - n ELSE n

RECURSIVE GCD(_, _)
GCD(a, b) == IF b = 0 THEN a ELSE GCD(b, a % b)

\* the rational n / d (d # 0) in lowest terms
Rat(n, d) ==
    LET g == GCD(Abs(n), Abs(d))
        sg == IF d < 0 THEN 0 - 1 ELSE 1
    IN <<(sg * n) \div g, (sg * d) \div g>>

RatOfInt(n) == <<n, 1>>
RatDiv(p, q) == Rat(p[1] * q[2], p[2] * q[1])
RatSub(p, q) == Rat(p[1] * q[2] - q[1] * p[2], p[2] * q[2])
RatMul(p, q) == Rat(p[1] * q[1], p[2] * q[2])
RatNeg(p) == <<0 - p[1], p[2]>>

\* r > 1e-6 and r < -1e-6, without leaving 32 bits
AboveEpsilon(r) == r[1] > r[2] \div 1000000
BelowMinusEpsilon(r) == 0 - r[1] > r[2] \div 1000000

\* Duration.Minutes() of a whole number of minutes
Minutes(d) == d \div 60

RECURSIVE Pow(_, _)
Pow(b, e) == IF e = 0 THEN 1 ELSE b * Pow(b, e - 1)

RECURSIVE SumOver(_, _, _)
\* the sum of f[i] for i in lo..hi
SumOver(f, lo, hi) == IF lo > hi THEN 0 ELSE f[lo] + SumOver(f, lo + 1, hi)

-----------------------------------------------------------------------------
(* WeightedLinReg                                                          *)
(*                                                                         *)
(* alpha is 0 or ln(2)/HalfLife per minute, so that w = exp(alpha * x) is  *)
(* 1 or 2^(x / HalfLife); the sample ages are multiples of HalfLife.  The  *)
(* weights are carried as integers, all multiplied by 2^(oldest age /      *)
(* HalfLife): slope, intercept and the test den == 0 do not depend on a    *)
(* common factor of the weights.                                           *)

HalfLife == 5       \* minutes in which a weight halves when alpha # 0
AlphaOpts == {"0", "ln2/5"}

weights(xs, alpha) ==
    LET oldest == xs[1]
    IN [i \in 1..Len(xs) |->
           IF alpha = "0" THEN 1 ELSE Pow(2, (xs[i] - oldest) \div HalfLife)]

WeightedLinReg_needsThree(sampleRows, alpha) ==
    IF Len(sampleRows) < 3 THEN [b |-> <<0, 1>>, a |-> <<0, 1>>, ok |-> FALSE]
    ELSE
      LET n == Len(sampleRows)
          tNow == sampleRows[n].T
          x == [i \in 1..n |-> Minutes(sampleRows[i].T - tNow)]
          w == weights(x, alpha)
          y == [i \in 1..n |-> sampleRows[i].Batt]
          sumW == SumOver(w, 1, n)
          sumWX == SumOver([i \in 1..n |-> w[i] * x[i]], 1, n)
          sumWY == SumOver([i \in 1..n |-> w[i] * y[i]], 1, n)
          sumWXX == SumOver([i \in 1..n |-> w[i] * x[i] * x[i]], 1, n)
          sumWXY == SumOver([i \in 1..n |-> w[i] * x[i] * y[i]], 1, n)
          den == sumW * sumWXX - sumWX * sumWX
      IN IF den = 0 THEN [b |-> <<0, 1>>, a |-> <<0, 1>>, ok |-> FALSE]
         ELSE LET b == Rat(sumW * sumWXY - sumWX * sumWY, den)
              IN [b |-> b,
                  a |-> RatDiv(RatSub(RatOfInt(sumWY), RatMul(b, RatOfInt(sumWX))),
                               RatOfInt(sumW)),
                  ok |-> TRUE]

WeightedLinReg_alwaysDecays(sampleRows, alpha) ==
    IF Len(sampleRows) < 2 THEN [b |-> <<0, 1>>, a |-> <<0, 1>>, ok |-> FALSE]
    ELSE
      LET n == Len(sampleRows)
          tNow == sampleRows[n].T
          x == [i \in 1..n |-> Minutes(sampleRows[i].T - tNow)]
          w == weights(x, "ln2/5")
          y == [i \in 1..n |-> sampleRows[i].Batt]
          sumW == SumOver(w, 1, n)
          sumWX == SumOver([i \in 1..n |-> w[i] * x[i]], 1, n)
          sumWY == SumOver([i \in 1..n |-> w[i] * y[i]], 1, n)
          sumWXX == SumOver([i \in 1..n |-> w[i] * x[i] * x[i]], 1, n)
          sumWXY == SumOver([i \in 1..n |-> w[i] * x[i] * y[i]], 1, n)
          den == sumW * sumWXX - sumWX * sumWX
      IN IF den = 0 THEN [b |-> <<0, 1>>, a |-> <<0, 1>>, ok |-> FALSE]
         ELSE LET b == Rat(sumW * sumWXY - sumWX * sumWY, den)
              IN [b |-> b,
                  a |-> RatDiv(RatSub(RatOfInt(sumWY), RatMul(b, RatOfInt(sumWX))),
                               RatOfInt(sumW)),
                  ok |-> TRUE]

WeightedLinReg(sampleRows, alpha) ==
    IF Len(sampleRows) < 2 THEN [b |-> <<0, 1>>, a |-> <<0, 1>>, ok |-> FALSE]
    ELSE
      LET n == Len(sampleRows)
          tNow == sampleRows[n].T
          x == [i \in 1..n |-> Minutes(sampleRows[i].T - tNow)]
          w == weights(x, alpha)
          y == [i \in 1..n |-> sampleRows[i].Batt]
          sumW == SumOver(w, 1, n)
          sumWX == SumOver([i \in 1..n |-> w[i] * x[i]], 1, n)
          sumWY == SumOver([i \in 1..n |-> w[i] * y[i]], 1, n)
          sumWXX == SumOver([i \in 1..n |-> w[i] * x[i] * x[i]], 1, n)
          sumWXY == SumOver([i \in 1..n |-> w[i] * x[i] * y[i]], 1, n)
          den == sumW * sumWXX - sumWX * sumWX
      IN IF den = 0 THEN [b |-> <<0, 1>>, a |-> <<0, 1>>, ok |-> FALSE]
         ELSE LET b == Rat(sumW * sumWXY - sumWX * sumWY, den)
              IN [b |-> b,
                  a |-> RatDiv(RatSub(RatOfInt(sumWY), RatMul(b, RatOfInt(sumWX))),
                               RatOfInt(sumW)),
                  ok |-> TRUE]

-----------------------------------------------------------------------------
(* FilterContiguousACState, FindLastACTransition, CalculateRateAndEstimate *)

RECURSIVE SuffixStart(_, _, _)
\* the walk backwards from index i: the least j <= i + 1 with all of
\* sampleRows[j..i] in state acState
SuffixStart(sampleRows, acState, i) ==
    IF i >= 1 /\ sampleRows[i].AC = acState
    THEN SuffixStart(sampleRows, acState, i - 1)
    ELSE i + 1

FilterContiguousACState(sampleRows, acState) ==
    IF Len(sampleRows) = 0 THEN <<>>
    ELSE SubSeq(sampleRows, SuffixStart(sampleRows, acState, Len(sampleRows)),
                Len(sampleRows))

RECURSIVE TransitionIndex(_, _, _)
\* the loop of FindLastACTransition from index i down: the index it returns
TransitionIndex(sampleRows, currentACState, i) ==
    IF i < 1 THEN 1
    ELSE IF sampleRows[i].AC # currentACState THEN i + 1
    ELSE TransitionIndex(sampleRows, currentACState, i - 1)

FindLastACTransition_sampleBefore(sampleRows) ==
    IF Len(sampleRows) = 0 THEN <<ZeroTime, 0>>
    ELSE LET n == Len(sampleRows)
             i == TransitionIndex(sampleRows, sampleRows[n].AC, n - 1)
             j == IF i > 1 THEN i - 1 ELSE i
         IN <<sampleRows[j].T, sampleRows[j].Batt>>

\* <<time, battery>>; <<ZeroTime, 0>> for no rows
FindLastACTransition(sampleRows) ==
    IF Len(sampleRows) = 0 THEN <<ZeroTime, 0>>
    ELSE LET n == Len(sampleRows)
             i == TransitionIndex(sampleRows, sampleRows[n].AC, n - 1)
         IN <<sampleRows[i].T, sampleRows[i].Batt>>

\* fmt.Sprintf: a text is the sequence of its literal pieces and of the
\* formatted values, a %d as its decimal digits
CalculateRateAndEstimate_interceptAnchored(sampleRows, currentBatt, alpha, maxChargePercent) ==
    IF Len(sampleRows) < 2
    THEN [rate |-> <<0, 1>>, estimate |-> <<0, 1>>,
          confidence |-> <<"(need >=2 samples with same AC state)">>, ok |-> FALSE]
    ELSE
      LET isCharging == sampleRows[1].AC
          reg == WeightedLinReg(sampleRows, alpha)
          rate == reg.b
      IN IF ~reg.ok
         THEN [rate |-> <<0, 1>>, estimate |-> <<0, 1>>,
               confidence |-> <<"(regression failed)">>, ok |-> FALSE]
         ELSE IF isCharging
         THEN IF AboveEpsilon(rate)
              THEN [rate |-> rate,
                    estimate |-> RatDiv(RatSub(RatOfInt(maxChargePercent), reg.a), rate),
                    confidence |-> <<"(based on ", ToString(Len(sampleRows)), " charging samples)">>,
                    ok |-> TRUE]
              ELSE [rate |-> rate, estimate |-> "Inf",
                    confidence |-> <<"(not charging or already full)">>, ok |-> TRUE]
         ELSE IF BelowMinusEpsilon(rate)
              THEN [rate |-> rate,
                    estimate |-> RatDiv(RatNeg(reg.a), rate),
                    confidence |-> <<"(based on ", ToString(Len(sampleRows)), " discharging samples)">>,
                    ok |-> TRUE]
              ELSE [rate |-> rate, estimate |-> "Inf",
                    confidence |-> <<"(not discharging)">>, ok |-> TRUE]

CalculateRateAndEstimate(sampleRows, currentBatt, alpha, maxChargePercent) ==
    IF Len(sampleRows) < 2
    THEN [rate |-> <<0, 1>>, estimate |-> <<0, 1>>,
          confidence |-> <<"(need >=2 samples with same AC state)">>, ok |-> FALSE]
    ELSE
      LET isCharging == sampleRows[1].AC
          reg == WeightedLinReg(sampleRows, alpha)
          rate == reg.b
      IN IF ~reg.ok
         THEN [rate |-> <<0, 1>>, estimate |-> <<0, 1>>,
               confidence |-> <<"(regression failed)">>, ok |-> FALSE]
         ELSE IF isCharging
         THEN IF AboveEpsilon(rate)
              THEN [rate |-> rate,
                    estimate |-> RatDiv(RatSub(RatOfInt(maxChargePercent),
                                               RatOfInt(currentBatt)), rate),
                    confidence |-> <<"(based on ", ToString(Len(sampleRows)), " charging samples)">>,
                    ok |-> TRUE]
              ELSE [rate |-> rate, estimate |-> "Inf",
                    confidence |-> <<"(not charging or already full)">>, ok |-> TRUE]
         ELSE IF BelowMinusEpsilon(rate)
              THEN [rate |-> rate,
                    estimate |-> RatDiv(RatNeg(RatOfInt(currentBatt)), rate),
                    confidence |-> <<"(based on ", ToString(Len(sampleRows)), " discharging samples)">>,
                    ok |-> TRUE]
              ELSE [rate |-> rate, estimate |-> "Inf",
                    confidence |-> <<"(not discharging)">>, ok |-> TRUE]

-----------------------------------------------------------------------------
(* GenerateStatusInfo: the fields that come from the regression and from   *)
(* the AC transition                                                       *)

RateLabel(currentACState) == IF currentACState THEN "Charge Rate" ELSE "Discharge Rate"

\* the text "—" (an em dash) of a missing estimate
Dash == "--"

\* a time.Duration of whole minutes; overflow names the int64 an infinite
\* float64 was converted to
ZeroDuration == [overflow |-> "none", mins |-> 0]

\* time.Duration(estimateMins * float64(time.Minute)).Round(time.Minute):
\* to the nearest minute, halves away from zero.  The conversion of +Inf to
\* int64 is implementation-defined: infAsInt64 is the value the build gives
EstimateDur(estimateMins, infAsInt64) ==
    IF estimateMins = "Inf"
    THEN [overflow |-> infAsInt64, mins |-> 0]
    ELSE LET n == estimateMins[1]
             d == estimateMins[2]
         IN [overflow |-> "none",
             mins |-> IF n >= 0 THEN (2 * n + d) \div (2 * d)
                      ELSE 0 - ((2 * (0 - n) + d) \div (2 * d))]

GenerateStatusInfo(sampleRows, alpha, maxChargePercent, infAsInt64) ==
    LET latest == sampleRows[Len(sampleRows)]
        transition == FindLastACTransition(sampleRows)
        currentACState == latest.AC
        contiguousSamples == FilterContiguousACState(sampleRows, currentACState)
    IN IF Len(contiguousSamples) >= 2
       THEN LET r == CalculateRateAndEstimate(contiguousSamples, latest.Batt, alpha,
                                              maxChargePercent)
                dur == EstimateDur(r.estimate, infAsInt64)
            IN [Latest |-> latest,
                TransitionTime |-> transition[1],
                TransitionBatt |-> transition[2],
                RateLabel |-> RateLabel(currentACState),
                Confidence |-> r.confidence,
                RegressionOk |-> r.ok,
                EstimateMins |-> IF r.ok THEN r.estimate ELSE "n/a",
                Estimate |-> IF r.ok THEN "FormatDurationAuto(dur)" ELSE Dash,
                EstimateDuration |-> IF r.ok THEN dur ELSE ZeroDuration,
                EstimateETA |-> IF r.ok THEN [zero |-> FALSE, after |-> dur]
                                ELSE [zero |-> TRUE, after |-> ZeroDuration],
                RunLength |-> Len(contiguousSamples)]
       ELSE [Latest |-> latest,
             TransitionTime |-> transition[1],
             TransitionBatt |-> transition[2],
             RateLabel |-> RateLabel(currentACState),
             Confidence |-> <<"(need >=2 ",
                              IF currentACState THEN "charging" ELSE "discharging",
                              " samples)">>,
             RegressionOk |-> FALSE,
             EstimateMins |-> "n/a",
             Estimate |-> Dash,
             EstimateDuration |-> ZeroDuration,
             EstimateETA |-> [zero |-> TRUE, after |-> ZeroDuration],
             RunLength |-> Len(contiguousSamples)]

-----------------------------------------------------------------------------
(* The regression run: one call of WeightedLinReg, CalculateRateAndEstimate *)
(* or GenerateStatusInfo on a bounded sample sequence                       *)

MaxSamples == 3     \* samples in one analytics input

RegGrid == {T0, T0 + 5 * 60, T0 + 10 * 60}
RegBatt == {50, 60}
CurrentBattOpts == {50, 60, 90}
MaxChargeOpts == {80, 100}
\* int64(+Inf): the smallest int64 on amd64, the largest on arm64
InfAsInt64Opts == {"MinInt64", "MaxInt64"}

\* chronological sample sequences: times never decrease
SampleSeqs(grid, batts, maxLen) ==
    UNION {{r \in [1..n -> [T : grid, AC : BOOLEAN, Batt : batts]] :
               \A i \in 1..(n - 1) : r[i].T <= r[i + 1].T} : n \in 0..maxLen}

\* every TUI variable at rest: the chart as constructed, nothing running
TuiAtRest ==
    /\ now = T0
    /\ baseWindow = defaultWindow
    /\ currentWindow = defaultWindow
    /\ windowEnd = now
    /\ windowStart = now - defaultWindow
    /\ series = <<>>
    /\ dataStart = ZeroTime
    /\ dataEnd = ZeroTime
    /\ onZoomChange = FALSE
    /\ chartTitle = -1
    /\ textWidget = "empty"
    /\ mainPc = "created"
    /\ tickerPc = "off"
    /\ tickerReadAt = ZeroTime
    /\ lastOp = "create"
    /\ cbCalls = 0
    /\ cbArgs = <<>>
    /\ nEvents = 0

InitRegression ==
    /\ TuiAtRest
    /\ NoDaemon
    /\ samples \in SampleSeqs(RegGrid, RegBatt, MaxSamples)
    /\ params \in [alpha : AlphaOpts, currentBatt : CurrentBattOpts,
                   maxChargePercent : MaxChargeOpts, infAsInt64 : InfAsInt64Opts]
    /\ called = "none"
    /\ ret = <<>>

\* one call: the function name and its result are recorded
Call(fn, result) ==
    /\ called = "none"
    /\ called' = fn
    /\ ret' = result
    /\ UNCHANGED <<tuiVars, samples, params, lockVars>>

SameACState(sampleRows) ==
    \A i \in 1..Len(sampleRows) : sampleRows[i].AC = sampleRows[1].AC

CallWeightedLinReg ==
    Call("WeightedLinReg", WeightedLinReg(samples, params.alpha))

\* the callers hand over one contiguous run
CallCalculateRateAndEstimate ==
    /\ SameACState(samples)
    /\ Call("CalculateRateAndEstimate",
            CalculateRateAndEstimate(samples, params.currentBatt, params.alpha,
                                     params.maxChargePercent))

\* updateData calls it with at least one row
CallGenerateStatusInfo ==
    /\ Len(samples) > 0
    /\ Call("GenerateStatusInfo",
            GenerateStatusInfo(samples, params.alpha, params.maxChargePercent,
                               params.infAsInt64))

NextRegression ==
    \/ CallWeightedLinReg
    \/ CallCalculateRateAndEstimate
    \/ CallGenerateStatusInfo

SpecRegression == InitRegression /\ [][NextRegression]_vars

-----------------------------------------------------------------------------
(* DetectSuspendEvents, CalculateScreenOnTime, CalculateDailyScreenOnTime  *)

Day == 24 * 3600

\* time.Date(y, m, d, 0, 0, 0, 0, loc) of t's date, in a zone whose offset
\* never changes; the time origin is a local midnight
StartOfDay(t) == (t \div Day) * Day

RECURSIVE DetectFrom(_, _, _)
\* the loop of DetectSuspendEvents from index i on (Go index i - 1)
DetectFrom(sampleRows, threshold, i) ==
    IF i > Len(sampleRows) THEN <<>>
    ELSE LET gap == sampleRows[i].T - sampleRows[i - 1].T
         IN (IF gap >= threshold
             THEN <<[StartTime |-> sampleRows[i - 1].T,
                     EndTime |-> sampleRows[i].T,
                     Duration |-> gap,
                     BatteryBefore |-> sampleRows[i - 1].Batt,
                     BatteryAfter |-> sampleRows[i].Batt,
                     BatteryDrop |-> sampleRows[i - 1].Batt - sampleRows[i].Batt]>>
             ELSE <<>>)
            \o DetectFrom(sampleRows, threshold, i + 1)

DetectSuspendEvents_strictGap(sampleRows, gapThresholdMinutes) ==
    IF Len(sampleRows) < 2 THEN <<>>
    ELSE DetectFrom(sampleRows, gapThresholdMinutes * 60 + 1, 2)

DetectSuspendEvents(sampleRows, gapThresholdMinutes) ==
    IF Len(sampleRows) < 2 THEN <<>>
    ELSE DetectFrom(sampleRows, gapThresholdMinutes * 60, 2)

\* ScreenOnTimeResult{}
ZeroScreenOnTime ==
    [TotalActiveTime |-> 0, SuspendTime |-> 0, LastActiveSession |-> 0,
     SuspendEvents |-> <<>>]

CalculateScreenOnTime_lastEventOnly(sampleRows, gapThresholdMinutes) ==
    IF Len(sampleRows) < 2 THEN ZeroScreenOnTime
    ELSE
      LET events == DetectSuspendEvents(sampleRows, gapThresholdMinutes)
          suspendTime == IF Len(events) > 0 THEN events[Len(events)].Duration ELSE 0
          totalTimeSpan == sampleRows[Len(sampleRows)].T - sampleRows[1].T
          totalActiveTime == totalTimeSpan - suspendTime
      IN [TotalActiveTime |-> totalActiveTime,
          SuspendTime |-> suspendTime,
          LastActiveSession |->
              IF Len(events) > 0
              THEN sampleRows[Len(sampleRows)].T - events[Len(events)].EndTime
              ELSE totalActiveTime,
          SuspendEvents |-> events]

CalculateScreenOnTime(sampleRows, gapThresholdMinutes) ==
    IF Len(sampleRows) < 2 THEN ZeroScreenOnTime
    ELSE
      LET events == DetectSuspendEvents(sampleRows, gapThresholdMinutes)
          suspendTime ==
              SumOver([i \in 1..Len(events) |-> events[i].Duration], 1, Len(events))
          totalTimeSpan == sampleRows[Len(sampleRows)].T - sampleRows[1].T
          totalActiveTime == totalTimeSpan - suspendTime
      IN [TotalActiveTime |-> totalActiveTime,
          SuspendTime |-> suspendTime,
          LastActiveSession |->
              IF Len(events) > 0
              THEN sampleRows[Len(sampleRows)].T - events[Len(events)].EndTime
              ELSE totalActiveTime,
          SuspendEvents |-> events]

\* row.T.After(startOfDay) && row.T.Before(endOfDay)
InDay(t, startOfDay, endOfDay) == t > startOfDay /\ t < endOfDay

CalculateDailyScreenOnTime(sampleRows, targetDate, gapThresholdMinutes) ==
    LET startOfDay == StartOfDay(targetDate)
        endOfDay == startOfDay + Day
        dayRows == SelectSeq(sampleRows, LAMBDA row : InDay(row.T, startOfDay, endOfDay))
    IN IF Len(dayRows) = 0 THEN ZeroScreenOnTime
       ELSE CalculateScreenOnTime(dayRows, gapThresholdMinutes)

-----------------------------------------------------------------------------
(* The usage run: one call of FindLastACTransition, FilterContiguousACState, *)
(* DetectSuspendEvents, CalculateScreenOnTime or CalculateDailyScreenOnTime  *)

MaxUsageSamples == 8    \* samples in one input of the usage run

\* sample times, in minutes after the midnight T0
UsageMinutes == {0 - 10, 0, 1, 2, 17, 34, 50, 51, 70, 87, 104, 120, 24 * 60}
GapThresholdOpts == {0, 5, 20}
TargetDateOpts == {T0 - 3600, T0 + 3600}

\* the battery reading logged at time t: one percent less every 10 minutes
BattAt(t) == 90 - ((t - T0) \div 600)

RECURSIVE SeqOfTimes(_)
\* the samples logged at the times of S, in chronological order, on battery
SeqOfTimes(S) ==
    IF S = {} THEN <<>>
    ELSE LET t == CHOOSE u \in S : \A v \in S : u <= v
         IN <<[T |-> t, AC |-> FALSE, Batt |-> BattAt(t)]>> \o SeqOfTimes(S \ {t})

\* logs with gaps: the samples at any at most maxLen of the usage times
GapSeqs(maxLen) ==
    {SeqOfTimes({T0 + 60 * m : m \in M}) :
        M \in {X \in SUBSET UsageMinutes : Cardinality(X) <= maxLen}}

\* logs with AC changes: one sample a minute, every AC history
ACSeqs(maxLen) ==
    UNION {{[i \in 1..n |-> [T |-> T0 + 60 * i, AC |-> ac[i], Batt |-> 50 + i]] :
               ac \in [1..n -> BOOLEAN]} : n \in 0..maxLen}

InitUsage ==
    /\ TuiAtRest
    /\ NoDaemon
    /\ samples \in GapSeqs(MaxUsageSamples) \cup ACSeqs(MaxUsageSamples)
    /\ params \in [gapThresholdMinutes : GapThresholdOpts,
                   targetDate : TargetDateOpts, acState : BOOLEAN]
    /\ called = "none"
    /\ ret = <<>>

CallFindLastACTransition ==
    Call("FindLastACTransition", FindLastACTransition(samples))

CallFilterContiguousACState ==
    Call("FilterContiguousACState", FilterContiguousACState(samples, params.acState))

CallDetectSuspendEvents ==
    Call("DetectSuspendEvents", DetectSuspendEvents(samples, params.gapThresholdMinutes))

CallCalculateScreenOnTime ==
    Call("CalculateScreenOnTime",
         CalculateScreenOnTime(samples, params.gapThresholdMinutes))

CallCalculateDailyScreenOnTime ==
    Call("CalculateDailyScreenOnTime",
         CalculateDailyScreenOnTime(samples, params.targetDate,
                                    params.gapThresholdMinutes))

NextUsage ==
    \/ CallFindLastACTransition
    \/ CallFilterContiguousACState
    \/ CallDetectSuspendEvents
    \/ CallCalculateScreenOnTime
    \/ CallCalculateDailyScreenOnTime

SpecUsage == InitUsage /\ [][NextUsage]_vars

-----------------------------------------------------------------------------
(* Vocabulary of the analytics properties *)

Range(f) == {f[i] : i \in DOMAIN f}

\* the samples shifted by k percent: same slope, intercept moved by k
ShiftBatt(sampleRows, k) ==
    [i \in 1..Len(sampleRows) |->
        [sampleRows[i] EXCEPT !.Batt = sampleRows[i].Batt + k]]

AllAtOneTimestamp(sampleRows) ==
    \A i \in 1..Len(sampleRows) : sampleRows[i].T = sampleRows[1].T

\* SwSwxx - (Swx)^2 with x the minutes before the latest sample
RegDenominator(sampleRows, alpha) ==
    LET n == Len(sampleRows)
        x == [i \in 1..n |-> Minutes(sampleRows[i].T - sampleRows[n].T)]
        w == weights(x, alpha)
    IN SumOver(w, 1, n) * SumOver([i \in 1..n |-> w[i] * x[i] * x[i]], 1, n)
         - SumOver([i \in 1..n |-> w[i] * x[i]], 1, n)
             * SumOver([i \in 1..n |-> w[i] * x[i]], 1, n)

\* ordinary least squares over x = minutes before the latest sample, from the
\* deviations from the means: slope = S(x-mx)(y-my) / S(x-mx)^2,
\* intercept = my - slope * mx
OLS(sampleRows) ==
    LET n == Len(sampleRows)
        x == [i \in 1..n |-> Minutes(sampleRows[i].T - sampleRows[n].T)]
        y == [i \in 1..n |-> sampleRows[i].Batt]
        sx == SumOver(x, 1, n)
        sy == SumOver(y, 1, n)
        sxy == SumOver([i \in 1..n |-> (n * x[i] - sx) * (n * y[i] - sy)], 1, n)
        sxx == SumOver([i \in 1..n |-> (n * x[i] - sx) * (n * x[i] - sx)], 1, n)
        slope == Rat(sxy, sxx)
    IN [slope |-> slope,
        intercept |-> RatSub(Rat(sy, n), RatMul(slope, Rat(sx, n)))]

\* battery rising linearly from 50% to 60% over 10 minutes, on AC
LinearRise ==
    <<[T |-> T0, AC |-> TRUE, Batt |-> 50],
      [T |-> T0 + 10 * 60, AC |-> TRUE, Batt |-> 60]>>

-----------------------------------------------------------------------------
(* C12: on a run whose regression succeeds, CalculateRateAndEstimate gives *)
(* eta = (maxChargePercent - currentBatt) / slope for a charging run with  *)
(* slope > 1e-6 and eta = -currentBatt / slope for a discharging run with  *)
(* slope < -1e-6, and otherwise an infinite ETA with "(not charging or     *)
(* already full)" resp. "(not discharging)"; the ETA is the same for a run *)
(* with the same slope and another intercept.                              *)
C12_EtaFromSlopeAndLiveBattery ==
    (called = "CalculateRateAndEstimate" /\ WeightedLinReg(samples, params.alpha).ok) =>
        LET slope == WeightedLinReg(samples, params.alpha).b
            cur == RatOfInt(params.currentBatt)
            target == RatOfInt(params.maxChargePercent)
        IN /\ ret.ok
           /\ ret.rate = slope
           /\ (samples[1].AC /\ AboveEpsilon(slope)) =>
                  ret.estimate = RatDiv(RatSub(target, cur), slope)
           /\ (samples[1].AC /\ ~AboveEpsilon(slope)) =>
                  /\ ret.estimate = "Inf"
                  /\ ret.confidence = <<"(not charging or already full)">>
           /\ (~samples[1].AC /\ BelowMinusEpsilon(slope)) =>
                  ret.estimate = RatDiv(RatNeg(cur), slope)
           /\ (~samples[1].AC /\ ~BelowMinusEpsilon(slope)) =>
                  /\ ret.estimate = "Inf"
                  /\ ret.confidence = <<"(not discharging)">>
           /\ \A k \in {0 - 10, 10} :
                  CalculateRateAndEstimate(ShiftBatt(samples, k), params.currentBatt,
                                           params.alpha, params.maxChargePercent).estimate
                      = ret.estimate

C12_Witness ==
    /\ called = "CalculateRateAndEstimate"
    /\ ret.ok
    /\ samples[1].AC
    /\ ret.estimate # "Inf"
    /\ params.alpha # "0"
    /\ WeightedLinReg(samples, params.alpha).a # RatOfInt(params.currentBatt)

(* C13: WeightedLinReg fails, with slope and intercept 0, exactly when it  *)
(* gets fewer than 2 samples or the denominator SwSwxx - (Swx)^2 is zero,  *)
(* as it is when all samples carry one timestamp; CalculateRateAndEstimate *)
(* then returns ok = false with a textual reason.                          *)
C13_RegressionFailsOnlyWhenDegenerate ==
    /\ called = "WeightedLinReg" =>
          /\ ret.ok = ~(Len(samples) < 2 \/ RegDenominator(samples, params.alpha) = 0)
          /\ ~ret.ok => (ret.b = <<0, 1>> /\ ret.a = <<0, 1>>)
          /\ AllAtOneTimestamp(samples) => ~ret.ok
    /\ (called = "CalculateRateAndEstimate"
            /\ (Len(samples) < 2 \/ RegDenominator(samples, params.alpha) = 0)) =>
          /\ ~ret.ok
          /\ ret.confidence \in {<<"(need >=2 samples with same AC state)">>,
                                 <<"(regression failed)">>}

C13_Witness ==
    /\ called = "CalculateRateAndEstimate"
    /\ Len(samples) = 3
    /\ AllAtOneTimestamp(samples)
    /\ ret.confidence = <<"(regression failed)">>

(* C14: with alpha = 0 and at least two samples that are not all at one    *)
(* timestamp, WeightedLinReg returns the ordinary least-squares slope and  *)
(* intercept; 50% -> 60% over 10 minutes gives 1 %/min and, from 60% to a  *)
(* target of 100%, an ETA of 40 minutes.                                   *)
C14_AlphaZeroIsLeastSquares ==
    /\ (called = "WeightedLinReg" /\ params.alpha = "0" /\ Len(samples) >= 2
            /\ ~AllAtOneTimestamp(samples)) =>
          /\ ret.ok
          /\ ret.b = OLS(samples).slope
          /\ ret.a = OLS(samples).intercept
    /\ (called = "CalculateRateAndEstimate" /\ params.alpha = "0"
            /\ samples = LinearRise /\ params.currentBatt = 60
            /\ params.maxChargePercent = 100) =>
          /\ ret.rate = <<1, 1>>
          /\ ret.estimate = <<40, 1>>

C14_Witness ==
    /\ called = "WeightedLinReg"
    /\ params.alpha = "0"
    /\ Len(samples) = 3
    /\ samples[1].T < samples[2].T
    /\ samples[2].T < samples[3].T
    /\ ret.b = <<1, 1>>
    /\ ret.a # <<60, 1>>

(* C15: whenever the regression over the contiguous run succeeds the       *)
(* confidence text contains the number of samples of the run, and when the *)
(* run has fewer than 2 samples it is "(need >=2 charging samples)" or     *)
(* "(need >=2 discharging samples)" by the latest sample's AC state.       *)
C15_ConfidenceStatesSampleCount ==
    called = "GenerateStatusInfo" =>
        /\ ret.RegressionOk => ToString(ret.RunLength) \in Range(ret.Confidence)
        /\ ret.RunLength < 2 =>
              ret.Confidence =
                  <<"(need >=2 ",
                    IF samples[Len(samples)].AC THEN "charging" ELSE "discharging",
                    " samples)">>

-----------------------------------------------------------------------------
(* Vocabulary of the usage properties *)

\* the samples at minutes 0, 1, 2, 50, 51
FiveSamples == SeqOfTimes({T0 + 60 * m : m \in {0, 1, 2, 50, 51}})

\* a 2-hour span with one 20-minute gap (50 -> 70) and no other gap of 20
\* minutes or more
TwoHourRun == SeqOfTimes({T0 + 60 * m : m \in {0, 17, 34, 50, 70, 87, 104, 120}})

\* [AC=true] x 3 + [AC=false] x 2
ThreePlusTwo ==
    [i \in 1..5 |-> [T |-> T0 + 60 * i, AC |-> i <= 3, Batt |-> 50 + i]]

\* the start of the maximal suffix of sampleRows whose samples are all in
\* state ac; Len + 1 when the latest sample is in the other state
MaximalSuffixStart(sampleRows, ac) ==
    CHOOSE k \in 1..(Len(sampleRows) + 1) :
        /\ \A i \in k..Len(sampleRows) : sampleRows[i].AC = ac
        /\ k > 1 => sampleRows[k - 1].AC # ac

\* the indices i whose gap to the sample before is at least the threshold
GapIndices(sampleRows, gapThresholdMinutes) ==
    {i \in 2..Len(sampleRows) :
        sampleRows[i].T - sampleRows[i - 1].T >= gapThresholdMinutes * 60}

\* the samples t with startOfDay(day) <= t < startOfDay(day) + 24h
SamplesOfDay(sampleRows, day) ==
    SelectSeq(sampleRows,
              LAMBDA row : StartOfDay(day) <= row.T /\ row.T < StartOfDay(day) + Day)

-----------------------------------------------------------------------------
(* C16: for a non-empty sequence FindLastACTransition returns time and     *)
(* battery of the first sample of the maximal suffix in the latest         *)
(* sample's AC state, which is the first element of                        *)
(* FilterContiguousACState(rows, latest.AC): the first sample when there   *)
(* is one state only, the first AC=false sample of TTTFF.                  *)
(* FilterContiguousACState returns that maximal suffix in order, and the   *)
(* empty list when the latest sample is in the other state.                *)
C16_TransitionIsStartOfLatestRun ==
    /\ (called = "FindLastACTransition" /\ Len(samples) > 0) =>
          LET latest == samples[Len(samples)]
              run == FilterContiguousACState(samples, latest.AC)
              k == MaximalSuffixStart(samples, latest.AC)
          IN /\ ret = <<run[1].T, run[1].Batt>>
             /\ ret = <<samples[k].T, samples[k].Batt>>
             /\ SameACState(samples) => ret = <<samples[1].T, samples[1].Batt>>
             /\ samples = ThreePlusTwo => ret = <<T0 + 60 * 4, 54>>
    /\ called = "FilterContiguousACState" =>
          LET k == MaximalSuffixStart(samples, params.acState)
          IN /\ ret = SubSeq(samples, k, Len(samples))
             /\ (Len(samples) > 0 /\ samples[Len(samples)].AC # params.acState) =>
                    ret = <<>>

C16_Witness ==
    /\ called = "FindLastACTransition"
    /\ samples = ThreePlusTwo
    /\ ret = <<T0 + 60 * 4, 54>>

(* C17: DetectSuspendEvents emits one event for exactly the adjacent pairs *)
(* whose gap is at least the threshold (equality counts), in order, with   *)
(* StartTime and EndTime the two sample times, Duration their difference   *)
(* and BatteryDrop = BatteryBefore - BatteryAfter; samples at minutes 0,   *)
(* 1, 2, 50, 51 with threshold 5 give the single event 2 -> 50.            *)
C17_OneEventPerLongGap ==
    called = "DetectSuspendEvents" =>
        LET idx == GapIndices(samples, params.gapThresholdMinutes)
        IN /\ Len(ret) = Cardinality(idx)
           /\ \A k \in 1..Len(ret) :
                 \E i \in idx :
                     /\ Cardinality({j \in idx : j <= i}) = k
                     /\ ret[k].StartTime = samples[i - 1].T
                     /\ ret[k].EndTime = samples[i].T
                     /\ ret[k].Duration = ret[k].EndTime - ret[k].StartTime
                     /\ ret[k].BatteryBefore = samples[i - 1].Batt
                     /\ ret[k].BatteryAfter = samples[i].Batt
                     /\ ret[k].BatteryDrop = ret[k].BatteryBefore - ret[k].BatteryAfter
           /\ (samples = FiveSamples /\ params.gapThresholdMinutes = 5) =>
                 /\ Len(ret) = 1
                 /\ ret[1].StartTime = T0 + 2 * 60
                 /\ ret[1].EndTime = T0 + 50 * 60

C17_Witness ==
    /\ called = "DetectSuspendEvents"
    /\ params.gapThresholdMinutes = 20
    /\ Len(ret) = 2
    /\ ret[1].Duration = 20 * 60
    /\ ret[2].Duration > 20 * 60
    /\ ret[1].BatteryDrop > 0

(* C18: for at least 2 sorted samples TotalActiveTime is the span minus    *)
(* the sum of the suspend durations, TotalActiveTime + SuspendTime is the  *)
(* span, 0 <= LastActiveSession <= TotalActiveTime <= span, and            *)
(* LastActiveSession is the time from the end of the latest suspend event  *)
(* to the last sample, or TotalActiveTime without events; a 2-hour span    *)
(* with one 20-minute suspend gives 100 minutes; fewer than 2 samples give *)
(* the zero value.                                                         *)
C18_ActiveTimeIsSpanMinusSuspends ==
    called = "CalculateScreenOnTime" =>
        IF Len(samples) < 2 THEN ret = ZeroScreenOnTime
        ELSE LET span == samples[Len(samples)].T - samples[1].T
                 events == DetectSuspendEvents(samples, params.gapThresholdMinutes)
                 durations == SumOver([i \in 1..Len(events) |-> events[i].Duration],
                                      1, Len(events))
             IN /\ ret.SuspendEvents = events
                /\ ret.TotalActiveTime = span - durations
                /\ ret.TotalActiveTime + ret.SuspendTime = span
                /\ 0 <= ret.LastActiveSession
                /\ ret.LastActiveSession <= ret.TotalActiveTime
                /\ ret.TotalActiveTime <= span
                /\ ret.LastActiveSession =
                       IF Len(events) > 0
                       THEN samples[Len(samples)].T - events[Len(events)].EndTime
                       ELSE ret.TotalActiveTime
                /\ (samples = TwoHourRun /\ params.gapThresholdMinutes = 20) =>
                       ret.TotalActiveTime = 100 * 60

C18_Witness ==
    /\ called = "CalculateScreenOnTime"
    /\ samples = TwoHourRun
    /\ params.gapThresholdMinutes = 20
    /\ Len(ret.SuspendEvents) = 1
    /\ ret.SuspendTime = 20 * 60
    /\ ret.TotalActiveTime = 100 * 60
    /\ ret.LastActiveSession = 50 * 60

(* C19: CalculateDailyScreenOnTime(rows, day, g) is CalculateScreenOnTime  *)
(* of exactly the samples t with startOfDay(day) <= t < startOfDay(day) +  *)
(* 24h, a sample at local midnight belonging to the day that starts there, *)
(* and the zero value when no sample matches.                              *)
C19_DailyIsHalfOpenDay ==
    called = "CalculateDailyScreenOnTime" =>
        LET dayRows == SamplesOfDay(samples, params.targetDate)
        IN ret = IF Len(dayRows) = 0 THEN ZeroScreenOnTime
                 ELSE CalculateScreenOnTime(dayRows, params.gapThresholdMinutes)

-----------------------------------------------------------------------------
(* drawSeries                                                              *)
(*                                                                         *)
(* A value is a whole percentage or NaN; what is drawn on the braille      *)
(* canvas is recorded as the sequence of SetPixel and BrailleLine calls.   *)

NaN == 0 - 1                \* encodes the float NaN; readings are >= 0
IsNaN(v) == v = NaN
yMin == 0                   \* CreateBatteryChart: yMin
yMax == 100                 \* CreateBatteryChart: yMax
maxGap == 5 * 60            \* drawSeries: 5 * time.Minute
brailleWidth == 28          \* bc.Area().Dx(): two sub-cell columns per cell
brailleHeight == 20         \* bc.Area().Dy(): four sub-cell rows per cell
NoPoint == <<>>             \* prevPoint == nil

\* int(f) for f = n / d >= 0
Trunc(n, d) == n \div d

RECURSIVE DrawFrom(_, _, _, _, _, _)
\* the loop of drawSeries from point i on, with prevPoint and prevTime
DrawFrom(points, startTime, endTime, i, prevPoint, prevTime) ==
    IF i > Len(points) THEN <<>>
    ELSE
      LET point == points[i]
          timeSpan == endTime - startTime
          x == Trunc(brailleWidth * (point.Time - startTime), timeSpan)
          y == brailleHeight - 1
                 - Trunc(brailleHeight * (point.Value - yMin), yMax - yMin)
          currentPoint == <<x, y>>
      IN IF point.Time < startTime \/ point.Time > endTime
         THEN DrawFrom(points, startTime, endTime, i + 1, prevPoint, prevTime)
         ELSE IF IsNaN(point.Value)
         THEN DrawFrom(points, startTime, endTime, i + 1, NoPoint, prevTime)
         ELSE IF x < 0 \/ x >= brailleWidth \/ y < 0 \/ y >= brailleHeight
         THEN DrawFrom(points, startTime, endTime, i + 1, NoPoint, prevTime)
         ELSE <<IF prevPoint # NoPoint /\ point.Time - prevTime <= maxGap
                THEN [call |-> "BrailleLine", from |-> prevPoint, to |-> currentPoint,
                      fromTime |-> prevTime, time |-> point.Time]
                ELSE [call |-> "SetPixel", from |-> NoPoint, to |-> currentPoint,
                      fromTime |-> ZeroTime, time |-> point.Time]>>
              \o DrawFrom(points, startTime, endTime, i + 1, currentPoint, point.Time)

drawSeries(points, startTime, endTime) ==
    IF Len(points) = 0 THEN <<>>
    ELSE IF endTime - startTime <= 0 THEN <<>>
    ELSE DrawFrom(points, startTime, endTime, 1, NoPoint, ZeroTime)

-----------------------------------------------------------------------------
(* The drawing run: one call of drawSeries on a bounded series and window  *)

MaxPoints == 3      \* points of the series drawn

\* point times, in minutes after T0
PointMinutes == {0, 3, 5, 11}
PointValues == {0, 50, 100, NaN}
\* <<startTime, endTime>>: all points inside; the first one before the
\* window; the last one on its right edge; an empty window
DrawWindows == {<<T0 - 60, T0 + 12 * 60>>, <<T0 + 60, T0 + 12 * 60>>,
                <<T0 - 60, T0 + 11 * 60>>, <<T0, T0>>}

RECURSIVE PointsAt(_, _)
\* the points at the times of S with the values val, in chronological order
PointsAt(S, val) ==
    IF S = {} THEN <<>>
    ELSE LET t == CHOOSE u \in S : \A v \in S : u <= v
         IN <<[Time |-> t, Value |-> val[t], State |-> TRUE]>> \o PointsAt(S \ {t}, val)

PointSeqs(maxLen) ==
    UNION {{PointsAt(S, val) : val \in [S -> PointValues]} :
              S \in {{T0 + 60 * m : m \in M} :
                        M \in {X \in SUBSET PointMinutes : Cardinality(X) <= maxLen}}}

InitDraw ==
    /\ TuiAtRest
    /\ NoDaemon
    /\ samples \in PointSeqs(MaxPoints)
    /\ params \in [window : DrawWindows]
    /\ called = "none"
    /\ ret = <<>>

CallDrawSeries ==
    Call("drawSeries", drawSeries(samples, params.window[1], params.window[2]))

NextDraw == CallDrawSeries

SpecDraw == InitDraw /\ [][NextDraw]_vars

-----------------------------------------------------------------------------
(* C20: within one series, two consecutively drawn visible samples are     *)
(* joined by a line segment if and only if their time gap is at most 5     *)
(* minutes; after a larger gap the later sample is an isolated point.      *)
C20_SegmentIffGapAtMostFiveMinutes ==
    called = "drawSeries" =>
        \A k \in 1..(Len(ret) - 1) :
            /\ ret[k + 1].call = "BrailleLine" <=> ret[k + 1].time - ret[k].time <= 5 * 60
            /\ ret[k + 1].call = "BrailleLine" => ret[k + 1].from = ret[k].to
            /\ ret[k + 1].time - ret[k].time > 5 * 60 => ret[k + 1].call = "SetPixel"

-----------------------------------------------------------------------------
(* Draw: one frame of the chart                                            *)

plotWidth == brailleWidth \div 2        \* plotArea.Dx()
NanosPerSecond == 1000000000            \* time.Duration counts nanoseconds
dayColor == "dayColor"                  \* DayNightColors(day, _)
nightColor == "nightColor"              \* DayNightColors(_, night)
ColorDefault == "ColorDefault"          \* background of a cell nothing painted

\* pixelTime.Hour(); T0 is a local midnight
Hour(t) == (t \div 3600) % 24

\* whole seconds of time.Duration(x) * (timeSpan / time.Duration(pixelWidth)):
\* the quotient is truncated to a nanosecond before it is multiplied
PixelOffset(x, timeSpan, pixelWidth) ==
    LET q == timeSpan \div pixelWidth
        r == timeSpan % pixelWidth
        lost == (r * (NanosPerSecond % pixelWidth)) % pixelWidth
    IN x * q + (IF x > 0 /\ lost > 0 /\ (x * r) % pixelWidth = 0
                THEN (x * r) \div pixelWidth - 1
                ELSE (x * r) \div pixelWidth)

\* the background of each column of the plot area after
\* drawDayNightBackground, on the cleared canvas
drawDayNightBackground(startTime, endTime, dayStart, dayEnd) ==
    LET timeSpan == endTime - startTime
    IN [x \in 0..(plotWidth - 1) |->
          IF timeSpan <= 0 THEN ColorDefault
          ELSE LET hour == Hour(startTime + PixelOffset(x, timeSpan, plotWidth))
               IN IF hour >= dayStart /\ hour < dayEnd THEN dayColor ELSE ColorDefault]

\* the background of each column after copyBrailleWithBackground; CopyTo
\* either keeps the background of a cell or resets it (keepsBg)
copyBrailleWithBackground(background, keepsBg, startTime, endTime, dayStart, dayEnd) ==
    LET timeSpan == endTime - startTime
        copied == [x \in 0..(plotWidth - 1) |->
                      IF keepsBg THEN background[x] ELSE ColorDefault]
    IN IF timeSpan <= 0 THEN copied
       ELSE [x \in 0..(plotWidth - 1) |->
               LET hour == Hour(startTime + (x * timeSpan) \div plotWidth)
               IN IF hour >= dayStart /\ hour < dayEnd THEN dayColor ELSE copied[x]]

\* Draw with the series ss and the window [startTime, endTime]: the text
\* drawn instead of a chart, the background after drawDayNightBackground,
\* the drawing calls of each series and the background of the final frame
Draw(ss, startTime, endTime, dayStart, dayEnd, keepsBg) ==
    IF Len(ss) = 0
    THEN [text |-> "No data", background |-> <<>>, lines |-> <<>>, frame |-> <<>>]
    ELSE LET background == drawDayNightBackground(startTime, endTime, dayStart, dayEnd)
         IN [text |-> "",
             background |-> background,
             lines |-> [k \in 1..Len(ss) |->
                          [Name |-> ss[k].Name,
                           calls |-> drawSeries(ss[k].Points, startTime, endTime)]],
             frame |-> copyBrailleWithBackground(background, keepsBg, startTime,
                                                 endTime, dayStart, dayEnd)]

-----------------------------------------------------------------------------
(* The frame run: one Draw of the series made from a bounded log *)

MaxFrameRows == 4   \* rows of the log drawn in one frame

\* sample times, in minutes after T0
FrameMinutes == {0, 1, 2, 3, 10}
\* <<startTime, endTime>>: the samples' quarter of an hour; three hours
\* from 05:30; the day from midnight; an empty window
FrameWindows == {<<T0 - 60, T0 + 12 * 60>>,
                 <<T0 + 5 * 3600 + 1800, T0 + 8 * 3600 + 1800>>,
                 <<T0, T0 + 24 * 3600>>, <<T0, T0>>}
\* <<dayStart, dayEnd>>
DayHourOpts == {<<7, 19>>, <<0, 6>>}

RECURSIVE RowsAt(_, _)
\* the rows logged at the times of S with the AC states ac, in
\* chronological order
RowsAt(S, ac) ==
    IF S = {} THEN <<>>
    ELSE LET t == CHOOSE u \in S : \A v \in S : u <= v
         IN <<[T |-> t, AC |-> ac[t], Batt |-> 50]>> \o RowsAt(S \ {t}, ac)

FrameRows(maxLen) ==
    UNION {{RowsAt(S, ac) : ac \in [S -> BOOLEAN]} :
              S \in {{T0 + 60 * m : m \in M} :
                        M \in {X \in SUBSET FrameMinutes : Cardinality(X) <= maxLen}}}

InitFrame ==
    /\ TuiAtRest
    /\ NoDaemon
    /\ samples \in FrameRows(MaxFrameRows)
    /\ params \in [window : FrameWindows, dayHours : DayHourOpts, keepsBg : BOOLEAN]
    /\ called = "none"
    /\ ret = <<>>

\* the chart holds the series ProcessChartData made of the log
CallDraw ==
    Call("Draw", Draw(ProcessChartData(samples), params.window[1], params.window[2],
                      params.dayHours[1], params.dayHours[2], params.keepsBg))

NextFrame == CallDraw

SpecFrame == InitFrame /\ [][NextFrame]_vars

-----------------------------------------------------------------------------
(* C21: no line segment joins two samples of one AC state when a sample of *)
(* the opposite AC state lies between them in time                         *)
C21_TransitionBreaksLine ==
    called = "Draw" =>
        \A k \in 1..Len(ret.lines) : \A c \in 1..Len(ret.lines[k].calls) :
            LET call == ret.lines[k].calls[c]
            IN call.call = "BrailleLine" =>
                 ~\E i \in 1..Len(samples) :
                      /\ samples[i].AC # (ret.lines[k].Name = "Charging")
                      /\ call.fromTime < samples[i].T
                      /\ samples[i].T < call.time

-----------------------------------------------------------------------------
(* Vocabulary of the drawing claims *)

\* the call of ret that draws the point of time t, if any
DrawnAt(t) == {k \in 1..Len(ret) : ret[k].time = t}
\* the value of the point of samples logged at time t
ValueAt(t) == samples[CHOOSE i \in 1..Len(samples) : samples[i].Time = t].Value
\* a value that maps to a row of the plot whatever H is
InsideAxis(v) == yMin <= v /\ v < yMax

(* C22: a sample with windowStart <= time <= windowEnd and an in-range     *)
(* value is drawn at a column in [0, W-1], the sample exactly at windowEnd *)
(* in the last column; a sample outside the window is dropped              *)
C22_VisibleSamplesGetAColumn ==
    (called = "drawSeries" /\ params.window[1] < params.window[2]) =>
        /\ \A i \in 1..Len(samples) :
               (/\ params.window[1] <= samples[i].Time
                /\ samples[i].Time <= params.window[2]
                /\ InsideAxis(samples[i].Value))
               => \E k \in DrawnAt(samples[i].Time) :
                      /\ ret[k].to[1] \in 0..(brailleWidth - 1)
                      /\ samples[i].Time = params.window[2]
                            => ret[k].to[1] = brailleWidth - 1
        /\ \A k \in 1..Len(ret) :
               params.window[1] <= ret[k].time /\ ret[k].time <= params.window[2]

(* C23: with yMin = 0 and yMax = 100, a visible sample with a value in     *)
(* [0, 100] is drawn at a row in [0, H-1], and a larger value is never     *)
(* drawn farther from the top than a smaller one                           *)
C23_ValuesInAxisGetARow ==
    (called = "drawSeries" /\ params.window[1] < params.window[2]) =>
        /\ \A i \in 1..Len(samples) :
               (/\ params.window[1] <= samples[i].Time
                /\ samples[i].Time < params.window[2]
                /\ yMin <= samples[i].Value /\ samples[i].Value <= yMax)
               => \E k \in DrawnAt(samples[i].Time) :
                      ret[k].to[2] \in 0..(brailleHeight - 1)
        /\ \A j, k \in 1..Len(ret) :
               ValueAt(ret[j].time) > ValueAt(ret[k].time) => ret[j].to[2] <= ret[k].to[2]

-----------------------------------------------------------------------------
(* C24: when no data bounds are known (nothing loaded yet, or the bounds   *)
(* cleared), a pan left or right leaves windowStart, windowEnd and         *)
(* currentWindow unchanged                                                 *)
C24_PanWithoutBoundsIsNoOp ==
    [][(lastOp' \in PanOps /\ nEvents' = nEvents + 1 /\ ~BoundsKnown) =>
          UNCHANGED <<windowStart, windowEnd, currentWindow>>]_vars

\* a pan key was handled after ClearSeries had cleared the bounds
C24_Witness ==
    /\ lastOp \in PanOps
    /\ ~BoundsKnown
    /\ tickerPc = "cleared"
    /\ nEvents >= 1

(* C26: under every interleaving of the refresh goroutine with the event   *)
(* loop, the state between ClearSeries and SetSeries is never observable:  *)
(* once a non-empty sample set is loaded, no later state makes Draw render *)
(* "No data" or makes pan return for lack of data bounds                   *)
C26_ClearedChartNeverVisible ==
    [][series # <<>> =>
          /\ Draw(series', windowStart', windowEnd', 7, 19, TRUE).text # "No data"
          /\ BoundsKnown']_vars

-----------------------------------------------------------------------------
(* Vocabulary of the background claim *)

\* the representative time of column x of the frame drawn
ColumnTime(x) ==
    params.window[1] + (x * (params.window[2] - params.window[1])) \div plotWidth
IsDayColumn(x) ==
    Hour(ColumnTime(x)) >= params.dayHours[1] /\ Hour(ColumnTime(x)) < params.dayHours[2]

(* C25: every column of the plot area has the day colour when the hour of  *)
(* its representative time lies in [dayStart, dayEnd) and the configured   *)
(* night colour otherwise, and copying the data line on top leaves each    *)
(* column the colour the background gave it                                *)
C25_DayNightBackground ==
    (called = "Draw" /\ ret.text = "" /\ params.window[1] < params.window[2]) =>
        \A x \in 0..(plotWidth - 1) :
            /\ ret.background[x] = IF IsDayColumn(x) THEN dayColor ELSE nightColor
            /\ ret.frame[x] = ret.background[x]

-----------------------------------------------------------------------------
(* C27: whenever CalculateRateAndEstimate returns ok with a finite ETA,    *)
(* the ETA is >= 0, for every currentBatt and maxChargePercent in          *)
(* [0, 100], a charging run read above the charge target included          *)
C27_FiniteEtaIsNeverNegative ==
    (called = "CalculateRateAndEstimate" /\ ret.ok /\ ret.estimate # "Inf") =>
        ret.estimate[1] >= 0

(* C28: when the ETA is infinite, GenerateStatusInfo gives the placeholder *)
(* estimate, a zero EstimateDuration and no ETA time; a finite duration    *)
(* and an ETA time come from a finite ETA only                             *)
C28_InfiniteEtaGivesPlaceholder ==
    called = "GenerateStatusInfo" =>
        /\ ret.EstimateMins = "Inf" =>
              /\ ret.Estimate = Dash
              /\ ret.EstimateDuration = ZeroDuration
              /\ ret.EstimateETA.zero
        /\ (ret.EstimateDuration # ZeroDuration \/ ~ret.EstimateETA.zero) =>
              (ret.EstimateMins # "Inf" /\ ret.EstimateMins # "n/a")

-----------------------------------------------------------------------------
(* The pid file lock of runCmd.  pidFile.pid is the number the file holds  *)
(* (0 while it is empty or not a number) and pidFile.owner the process     *)
(* that created it (0 for a file left by a daemon that died)               *)

\* os.Stat("/proc/<pid>") succeeds: the process runs; a daemon that was
\* refused, failed or released has exited
Alive(pid) == pid \in Procs /\ daemon[pid] \notin {"refused", "failed", "released"}

\* os.OpenFile(p.Path, O_CREATE|O_EXCL|O_WRONLY): creates the empty file
\* or fails because it exists
OpenExcl(p, onSuccess, onFailure) ==
    IF ~pidFile.exists
    THEN /\ pidFile' = [exists |-> TRUE, pid |-> 0, owner |-> p]
         /\ daemon' = [daemon EXCEPT ![p] = onSuccess]
    ELSE /\ daemon' = [daemon EXCEPT ![p] = onFailure]
         /\ UNCHANGED pidFile

\* Acquire: the first O_EXCL open
AcquireOpen(p) ==
    /\ daemon[p] = "start"
    /\ OpenExcl(p, "write", "read")
    /\ UNCHANGED <<tuiVars, callVars>>

\* Acquire: f.WriteString(pid) into the file it created, then return true;
\* the write reaches the path only while the path still names that file
AcquireWrite(p) ==
    /\ daemon[p] = "write"
    /\ pidFile' = IF pidFile.exists /\ pidFile.owner = p
                  THEN [pidFile EXCEPT !.pid = p] ELSE pidFile
    /\ daemon' = [daemon EXCEPT ![p] = "running"]
    /\ UNCHANGED <<tuiVars, callVars>>

\* Acquire: read the existing file and test whether its process is alive
AcquireRead(p) ==
    /\ daemon[p] = "read"
    /\ daemon' = [daemon EXCEPT ![p] =
                     IF ~pidFile.exists THEN "failed"
                     ELSE IF pidFile.pid > 0 /\ Alive(pidFile.pid) THEN "refused"
                     ELSE "remove"]
    /\ UNCHANGED <<pidFile, tuiVars, callVars>>

\* Acquire: os.Remove(p.Path) of the file taken for stale
AcquireRemove(p) ==
    /\ daemon[p] = "remove"
    /\ pidFile' = Absent
    /\ daemon' = [daemon EXCEPT ![p] = "retry"]
    /\ UNCHANGED <<tuiVars, callVars>>

\* Acquire: the second O_EXCL open
AcquireRetry(p) ==
    /\ daemon[p] = "retry"
    /\ OpenExcl(p, "write", "failed")
    /\ UNCHANGED <<tuiVars, callVars>>

\* Release, deferred by runCmd: os.Remove(p.Path)
Release(p) ==
    /\ daemon[p] = "running"
    /\ pidFile' = Absent
    /\ daemon' = [daemon EXCEPT ![p] = "released"]
    /\ UNCHANGED <<tuiVars, callVars>>

\* the pid file found at start: none, one left by a dead daemon, an empty one
InitLock ==
    /\ TuiAtRest
    /\ NoCall
    /\ pidFile \in {Absent,
                    [exists |-> TRUE, pid |-> StalePid, owner |-> 0],
                    [exists |-> TRUE, pid |-> 0, owner |-> 0]}
    /\ daemon = [p \in Procs |-> "start"]

NextLock ==
    \E p \in Procs :
        \/ AcquireOpen(p)
        \/ AcquireWrite(p)
        \/ AcquireRead(p)
        \/ AcquireRemove(p)
        \/ AcquireRetry(p)
        \/ Release(p)

SpecLock == InitLock /\ [][NextLock]_vars

(* C29: when several daemons call Acquire concurrently, with or without a *)
(* stale pid file, at most one of them obtains true while no holder has    *)
(* released                                                                *)
C29_AtMostOneDaemonAcquires ==
    (\A p \in Procs : daemon[p] # "released") =>
        Cardinality({p \in Procs : daemon[p] = "running"}) <= 1

-----------------------------------------------------------------------------
(* The log file writer.  A file is the sequence of its bytes; a line of    *)
(* the model is one byte followed by the newline NL                        *)

NL == "\n"
chunk == 8192                           \* readLinesBackward: const chunk

RECURSIVE ExtractFrom(_, _, _, _)
\* the loop of extractLinesFromEnd at index i (bytes are numbered from 1):
\* <<lines, buf>>
ExtractFrom(buf, lines, n, i) ==
    IF i < 1 \/ Len(lines) >= n THEN <<lines, buf>>
    ELSE IF buf[i] = NL
         THEN LET line == SubSeq(buf, i + 1, Len(buf))
              IN ExtractFrom(SubSeq(buf, 1, i - 1),
                             IF line # <<>> THEN Append(lines, line) ELSE lines,
                             n, i - 1)
         ELSE ExtractFrom(buf, lines, n, i - 1)

extractLinesFromEnd(buf, lines, n) == ExtractFrom(buf, lines, n, Len(buf))

RECURSIVE ReadBackFrom(_, _, _, _, _)
\* the loop of readLinesBackward with pos bytes still unread, and what
\* follows it
ReadBackFrom(f, pos, lines, partial, n) ==
    IF pos > 0 /\ Len(lines) <= n
    THEN LET readSize == IF pos > chunk THEN chunk ELSE pos
             newPos == pos - readSize
             tmp == SubSeq(f, newPos + 1, newPos + readSize)
             e == extractLinesFromEnd(tmp \o partial, lines, n)
         IN ReadBackFrom(f, newPos, e[1], e[2], n)
    ELSE IF Len(lines) < n /\ Len(partial) > 0
         THEN Append(lines, partial)
         ELSE lines

readLinesBackward(f, size, n) == ReadBackFrom(f, size, <<>>, <<>>, n)

reverseStrings(ss) == [i \in 1..Len(ss) |-> ss[Len(ss) + 1 - i]]

\* tailLastLines: the lines in chronological order, each ending in NL
tailLastLines(f, n) ==
    IF Len(f) = 0 THEN <<>>
    ELSE LET lines == reverseStrings(readLinesBackward(f, Len(f), n))
         IN [i \in 1..Len(lines) |->
                IF lines[i][Len(lines[i])] = NL THEN lines[i]
                ELSE Append(lines[i], NL)]

\* br.ReadString('\n'): up to and including the first NL, or everything
ReadHeader(f) ==
    IF \E i \in 1..Len(f) : f[i] = NL
    THEN SubSeq(f, 1, CHOOSE i \in 1..Len(f) :
                         f[i] = NL /\ \A j \in 1..(i - 1) : f[j] # NL)
    ELSE f

RECURSIVE Concat(_)
Concat(ss) == IF ss = <<>> THEN <<>> ELSE Head(ss) \o Concat(Tail(ss))

\* TrimToLast on an existing file f: the bytes of the file that replaces it
TrimToLast(f, maxDataLines) ==
    ReadHeader(f) \o Concat(tailLastLines(f, maxDataLines))

-----------------------------------------------------------------------------
(* The trim run: one TrimToLast of a log written by AppendCSV *)

MaxDataLines == 3   \* data lines of the log that is trimmed

HeaderLine == <<"h">>                   \* the header AppendCSV writes first
DataBytes == {"a", "b"}                 \* what a data line can hold

\* the logs: the header and at most maxLen data lines
LogLines(maxLen) ==
    UNION {{<<HeaderLine>> \o [i \in 1..k |-> <<d[i]>>] : d \in [1..k -> DataBytes]} :
              k \in 0..maxLen}

\* the bytes of a file of these lines
FileBytes(lines) == Concat([i \in 1..Len(lines) |-> Append(lines[i], NL)])

InitTrim ==
    /\ TuiAtRest
    /\ NoDaemon
    /\ samples \in LogLines(MaxDataLines)
    /\ params \in [maxDataLines : 0..(MaxDataLines + 1)]
    /\ called = "none"
    /\ ret = <<>>

CallTrimToLast ==
    Call("TrimToLast", TrimToLast(FileBytes(samples), params.maxDataLines))

NextTrim == CallTrimToLast

SpecTrim == InitTrim /\ [][NextTrim]_vars

\* the last n elements of a sequence
LastN(ss, n) == SubSeq(ss, Len(ss) - n + 1, Len(ss))
Min(a, b) == IF a < b THEN a ELSE b

(* C30: TrimToLast(N) rewrites the log as its header line followed by the  *)
(* last min(N, k) of its k data lines in their order; with k <= N the file *)
(* is unchanged; trimming twice gives the same file as trimming once       *)
C30_TrimKeepsHeaderAndLastLines ==
    called = "TrimToLast" =>
        LET k == Len(samples) - 1
            N == params.maxDataLines
        IN /\ ret = FileBytes(<<HeaderLine>> \o LastN(Tail(samples), Min(N, k)))
           /\ k <= N => ret = FileBytes(samples)
           /\ TrimToLast(ret, N) = ret

====
